---------------------------- MODULE Spec2Model ----------------------------
(***************************************************************************)
(* Trivil playground backend: the compile-and-run service                  *)
(* (TrivilCompilerService) and the syntax-analysis service                 *)
(* (TrivilSyntaxAnalysisService) with its process registry, periodic       *)
(* sweeper and shutdown hook; the static tokenizer on its own; and the     *)
(* browser's SyntaxAnalysisService with its abort controller and timer.    *)
(*                                                                         *)
(* Worker threads serve requests one after another; external processes     *)
(* and the temp directory are the environment.  A process is "running",    *)
(* "killed" (SIGKILL delivered, isAlive() still true) or "exited".         *)
(* destroyForcibly() followed by waitFor(2s) is one step that leaves the   *)
(* process exited, unless the waiting thread's interrupt flag is set.      *)
(***************************************************************************)
EXTENDS Integers, Sequences, FiniteSets, TLC

VARIABLES
    pc,               \* position of every actor (worker threads, sweeper, shutdown hook)
    req,              \* per worker thread: locals of the request being served
    intr,             \* per actor: the thread's interrupt flag
    fs,               \* files below properties.tempDirectory()
    procs,            \* every external process spawned so far
    nextSid,          \* requests taken so far; the n-th request's UUID is n
    activeProcesses,  \* the registry: set of [id, proc]
    processCounter,   \* AtomicLong processCounter
    iter,             \* per actor: entries a cleanupZombieProcesses pass has yet to visit
    kill,             \* entries killAllActiveProcesses has yet to visit
    hist,             \* per registry id: how often it was put and how often removed
    client            \* the browser's SyntaxAnalysisService: its field and its calls

vars == <<pc, req, intr, fs, procs, nextSid, activeProcesses, processCounter, iter, kill,
          hist, client>>

-----------------------------------------------------------------------------
(* Bounds *)

MaxReq == 2          \* requests accepted in one run
PipeCap == 1         \* capacity of the OS pipe between child and service

MaxOut == PipeCap + 1                 \* largest output a child wants to write
OutSizes == {PipeCap, MaxOut}         \* an output the pipe holds, and one it does not
maxSourceCodeLength == 1              \* properties.maxSourceCodeLength(), scaled
MaxSrcLen == maxSourceCodeLength + 1  \* longest source offered
maxOutputLength == 2                  \* properties.maxOutputLength(), scaled
MaxRaw == maxOutputLength + 1         \* longest program output
LexLen == 3                           \* longest text of the exhaustive tokenizer inputs
MaxCalls == 3                         \* calls of the client's analyzeSyntax in one run

Threads == {"t1", "t2"}
Actors == Threads \cup {"sweeper", "hook"}

-----------------------------------------------------------------------------
(* Source text *)

Chars == {" ", "x"}
SeqUpTo(n) == UNION {[1..k -> Chars] : k \in 0..n}
NullSource == [isNull |-> TRUE, text |-> <<>>]
Sources == {NullSource} \cup {[isNull |-> FALSE, text |-> x] : x \in SeqUpTo(MaxSrcLen)}

\* String.trim().isEmpty()
IsBlank(x) == \A i \in 1..Len(x) : x[i] = " "

\* TrivilCompilerService lines 34 and 38
SourceIsEmpty(s) == s.isNull \/ IsBlank(s.text)
SourceTooLong(s) == Len(s.text) > maxSourceCodeLength
\* the length check left out
InputRejectedNoLengthCheck(s) == SourceIsEmpty(s)
InputRejected(s) == SourceIsEmpty(s) \/ SourceTooLong(s)

-----------------------------------------------------------------------------
(* File names and files.  A name is stem + extension (+ session id for the *)
(* generated names); loc is 0 for the temp root and the session id for a   *)
(* file inside that session's directory; owner is the session whose        *)
(* request (or whose compiler run) created the file.                       *)

File(stem, ext, sid, loc, owner, isDir) ==
    [stem |-> stem, ext |-> ext, sid |-> sid, loc |-> loc, owner |-> owner, dir |-> isDir]

SameName(f, g) ==
    f.stem = g.stem /\ f.ext = g.ext /\ f.sid = g.sid /\ f.loc = g.loc

SourceFileOf(sid)   == File("temp", "tri", sid, 0, sid, FALSE)
BaseFileOf(sid)     == File("temp", "", sid, 0, sid, FALSE)
BaseExeFileOf(sid)  == File("temp", "exe", sid, 0, sid, FALSE)
SessionDirOf(sid)   == File("session", "", sid, 0, sid, TRUE)
MainTriOf(sid)      == File("main", "tri", 0, sid, sid, FALSE)

Exists(files, f) == \E g \in files : SameName(f, g)
Delete(files, f) == {g \in files : ~SameName(f, g)}
Create(files, f) == Delete(files, f) \cup {f}
Listing(files) == {f \in files : f.loc = 0}

\* what the compiler may leave behind in its working directory
Artifacts == {"none", "base", "exe", "privet", "privetexe", "aout"}

ArtifactFile(a, sid) ==
    CASE a = "base" -> BaseFileOf(sid)
      [] a = "exe" -> BaseExeFileOf(sid)
      [] a = "privet" -> File("privet", "", 0, 0, sid, FALSE)
      [] a = "privetexe" -> File("privet", "exe", 0, 0, sid, FALSE)
      [] OTHER -> File("a", "out", 0, 0, sid, FALSE)

Emit(files, a, sid) == IF a = "none" THEN files ELSE Create(files, ArtifactFile(a, sid))

-----------------------------------------------------------------------------
(* Processes *)

NoProc == 0
NoFile == [stem |-> "none"]

NewProc(kind, sid, out, drain, img) ==
    [kind |-> kind, owner |-> sid, st |-> "running", out |-> out, drain |-> drain, img |-> img,
     held |-> FALSE]

IsAlive(p) == procs[p].st # "exited"
HasExited(p) == procs[p].st = "exited"

\* destroyForcibly() alone: SIGKILL is sent, the process is not yet reaped
Destroy(ps, p) ==
    IF ps[p].st = "running" THEN [ps EXCEPT ![p].st = "killed"] ELSE ps

\* destroyForcibly() then waitFor(2, SECONDS)
DestroyAndWait(ps, p, interrupted) ==
    IF ps[p].st = "exited" THEN ps
    ELSE IF interrupted THEN [ps EXCEPT ![p].st = "killed"]
    ELSE [ps EXCEPT ![p].st = "exited"]

-----------------------------------------------------------------------------
(* Requests *)

NoResult == [kind |-> "none", timed |-> FALSE, msg |-> <<>>, toks |-> <<>>]
Outcome(kind, timed) == [kind |-> kind, timed |-> timed, msg |-> <<>>, toks |-> <<>>]

\* CompileResponse factories: the kind, whether executionTimeMs is set, the text
success(output)       == [Outcome("success", TRUE) EXCEPT !.msg = output]
compilationError(msg) == [Outcome("compilation_error", FALSE) EXCEPT !.msg = msg]
\* a runtime error without the elapsed time
runtimeErrorUntimed(msg) == [Outcome("runtime_error", FALSE) EXCEPT !.msg = msg]
runtimeError(msg)     == [Outcome("runtime_error", TRUE) EXCEPT !.msg = msg]
timeout(msg)          == [Outcome("timeout", FALSE) EXCEPT !.msg = msg]

\* the texts of the service, as words
EmptyMessage      == <<"Source", "code", "cannot", "be", "empty">>
TooLongMessage    == <<"Source", "code", "exceeds", "maximum", "length">>
CompileTimeoutMessage == <<"Compilation", "timeout", "exceeded">>
CompilerFailedMessage == <<"Failed", "to", "execute", "compiler">>
NotFoundMessage   == <<"Compiled", "executable", "not", "found">>
ProgramFailedMessage  == <<"Failed", "to", "execute", "program">>
ExecuteTimeoutMessage == <<"Program", "execution", "timeout", "exceeded">>
InternalErrorMessage  == <<"Internal", "server", "error">>
CompilerOutput    == <<"compiler", "output">>
Cause             == <<"cause">>

\* an exception: its class and its getMessage()
Exc(type, msg) == [type |-> type, msg |-> msg]

IdleReq ==
    [mode |-> "none", src |-> NullSource, sid |-> 0, child |-> NoProc, result |-> NoResult,
     touched |-> FALSE, spawned |-> FALSE, pid |-> 0, why |-> "none",
     exit |-> 0, marker |-> FALSE, raw |-> <<>>, output |-> <<>>, toks |-> <<>>,
     ast |-> <<>>]

Init ==
    /\ pc = [a \in Actors |-> "idle"]
    /\ req = [t \in Threads |-> IdleReq]
    /\ intr = [a \in Actors |-> FALSE]
    /\ fs = {}
    /\ procs = <<>>
    /\ nextSid = 0
    /\ activeProcesses = {}
    /\ processCounter = 0
    /\ iter = [a \in Actors |-> [todo |-> {}, cur |-> 0]]
    /\ kill = {}
    /\ hist = <<>>
    /\ client = [abortController |-> 0, calls |-> <<>>]

-----------------------------------------------------------------------------
(* TrivilCompilerService.compileAndExecute *)

\* the catch clauses without the final catch (Exception e)
CaughtWithoutCatchAll(exc) ==
    CASE exc.type = "CompilationException" -> compilationError(exc.msg)
      [] exc.type = "ExecutionException" -> runtimeError(exc.msg)
      [] OTHER -> Outcome("thrown", FALSE)

\* lines 85-94: the catch clauses of compileAndExecute
Caught(exc) ==
    CASE exc.type = "CompilationException" -> compilationError(exc.msg)
      [] exc.type = "ExecutionException" -> runtimeError(exc.msg)
      [] OTHER -> compilationError(InternalErrorMessage \o exc.msg)

\* the shared part of every step that leaves the try block with a response
Respond(t, res, why) ==
    /\ req' = [req EXCEPT ![t].result = res, ![t].why = why]
    /\ pc' = [pc EXCEPT ![t] = "c_finally"]

\* lines 32-53: validation, then the session's names
compileAndExecute(t, s) ==
    /\ pc[t] = "idle" /\ pc["hook"] = "idle"
    /\ nextSid < MaxReq
    /\ nextSid' = nextSid + 1
    /\ IF InputRejected(s)
         THEN /\ req' = [req EXCEPT ![t] = [IdleReq EXCEPT !.mode = "compile", !.src = s,
                                              !.result = IF SourceIsEmpty(s)
                                                         THEN compilationError(EmptyMessage)
                                                         ELSE compilationError(TooLongMessage),
                                              !.why = "InputRejected"]]
              /\ pc' = [pc EXCEPT ![t] = "done"]
         ELSE /\ req' = [req EXCEPT ![t] = [IdleReq EXCEPT !.mode = "compile", !.src = s,
                                              !.sid = nextSid + 1]]
              /\ pc' = [pc EXCEPT ![t] = "c_mkdirs"]
    /\ UNCHANGED <<intr, fs, procs, activeProcesses, processCounter, iter, kill, hist, client>>

\* line 57: Files.createDirectories(tempDir)
createTempDir(t) ==
    /\ pc[t] = "c_mkdirs"
    /\ \E ok \in BOOLEAN :
         IF ok THEN /\ req' = [req EXCEPT ![t].touched = TRUE]
                    /\ pc' = [pc EXCEPT ![t] = "c_purge"]
         ELSE /\ req' = [req EXCEPT ![t].touched = TRUE, ![t].why = "IOFailure",
                                     ![t].result = Caught(Exc("IOException", Cause))]
              /\ pc' = [pc EXCEPT ![t] = "c_finally"]
    /\ UNCHANGED <<intr, fs, procs, nextSid, activeProcesses, processCounter, iter, kill, hist,
                   client>>

\* lines 280-288: the filter of cleanupAllTempFiles
PurgeMatch(f) ==
    \/ f.ext = "tri"
    \/ f.ext = "exe"
    \/ f.stem = "temp"
    \/ (f.stem = "privet" /\ f.ext = "")
    \/ (f.stem = "a" /\ f.ext = "out")
    \/ (f.stem = "main" /\ f.ext = "")

\* lines 271-301; a directory that is not empty is not deleted (IOException, logged)
Purged(files) ==
    {f \in files : ~(f.loc = 0 /\ PurgeMatch(f) /\ ~f.dir)}

cleanupAllTempFiles(t) ==
    /\ pc[t] = "c_purge"
    /\ \E listed \in BOOLEAN : fs' = IF listed THEN Purged(fs) ELSE fs
    /\ pc' = [pc EXCEPT ![t] = "c_write"]
    /\ UNCHANGED <<req, intr, procs, nextSid, activeProcesses, processCounter, iter, kill, hist,
                   client>>

\* lines 63, 101-103
writeSourceFile(t) ==
    /\ pc[t] = "c_write"
    /\ \E ok \in BOOLEAN :
         IF ok THEN /\ fs' = Create(fs, SourceFileOf(req[t].sid))
                    /\ pc' = [pc EXCEPT ![t] = "c_spawn"]
                    /\ UNCHANGED req
         ELSE /\ Respond(t, Caught(Exc("IOException", Cause)), "IOFailure")
              /\ UNCHANGED fs
    /\ UNCHANGED <<intr, procs, nextSid, activeProcesses, processCounter, iter, kill, hist,
                   client>>

\* both steps wrap the failure as a CompilationException
startFailureAlwaysCompilation(step) ==
    Exc("CompilationException", CompilerFailedMessage \o Cause)

\* lines 162-165 and 252-255: what a failed processBuilder.start() becomes
startFailure(step) ==
    IF step = "compile"
    THEN Exc("CompilationException", CompilerFailedMessage \o Cause)
    ELSE Exc("ExecutionException", ProgramFailedMessage \o Cause)

\* lines 110-121: compileSource starts the compiler in the temp directory
compileSource(t) ==
    /\ pc[t] = "c_spawn"
    /\ \/ \E out \in OutSizes :
            /\ procs' = Append(procs, NewProc("compile", req[t].sid, out, FALSE, NoFile))
            /\ req' = [req EXCEPT ![t].child = Len(procs) + 1, ![t].spawned = TRUE]
            /\ pc' = [pc EXCEPT ![t] = "c_wait"]
            /\ UNCHANGED intr
       \/ /\ Respond(t, Caught(startFailure("compile")), "SpawnFailure")
          /\ intr' = [intr EXCEPT ![t] = TRUE]
          /\ UNCHANGED procs
    /\ UNCHANGED <<fs, nextSid, activeProcesses, processCounter, iter, kill, hist, client>>

\* lines 124-129: process.waitFor(compilationTimeoutMs)
compileWait(t) ==
    /\ pc[t] = "c_wait"
    /\ IF HasExited(req[t].child)
         THEN /\ pc' = [pc EXCEPT ![t] = "c_read"]
              /\ UNCHANGED <<req, intr, procs>>
         ELSE IF intr[t]
         THEN \* InterruptedException, lines 162-165: the flag is set again
              /\ Respond(t, Caught(Exc("CompilationException", CompilerFailedMessage \o Cause)),
                         "Interrupted")
              /\ UNCHANGED <<intr, procs>>
         ELSE \* the timeout elapses, lines 126-129
              /\ procs' = Destroy(procs, req[t].child)
              /\ Respond(t, Caught(Exc("CompilationException", CompileTimeoutMessage)),
                         "CompileTimeout")
              /\ UNCHANGED intr
    /\ UNCHANGED <<fs, nextSid, activeProcesses, processCounter, iter, kill, hist, client>>

\* lines 147-151
executableExists(files, sid) ==
    \/ Exists(files, BaseFileOf(sid))
    \/ Exists(files, BaseExeFileOf(sid))
    \/ Exists(files, ArtifactFile("privet", sid))
    \/ Exists(files, ArtifactFile("privetexe", sid))
    \/ Exists(files, ArtifactFile("aout", sid))

\* the marker and the artifact both required
compilationSuccessfulBoth(exitCode, marker, exists) ==
    exitCode = 0 /\ (marker /\ exists)

\* line 154
compilationSuccessful(exitCode, marker, exists) ==
    exitCode = 0 /\ (marker \/ exists)

\* lines 258-269: readLine() returns at the end of the stream, that is when
\* nobody holds the write end of the pipe any more
EndOfStream(p) == ~procs[p].held

\* lines 132-160: read the output, then judge the compile
compileJudge(t) ==
    /\ pc[t] = "c_read"
    /\ EndOfStream(req[t].child)
    /\ \/ \E exitCode \in {0, 1}, marker \in BOOLEAN :
            IF compilationSuccessful(exitCode, marker, executableExists(fs, req[t].sid))
            THEN /\ pc' = [pc EXCEPT ![t] = "e_locate"]
                 /\ req' = [req EXCEPT ![t].exit = exitCode, ![t].marker = marker]
                 /\ UNCHANGED intr
            ELSE \* lines 68-71
                 /\ req' = [req EXCEPT ![t].exit = exitCode, ![t].marker = marker,
                                        ![t].result = compilationError(CompilerOutput),
                                        ![t].why = "CompilationFailure"]
                 /\ pc' = [pc EXCEPT ![t] = "c_finally"]
                 /\ UNCHANGED intr
       \/ \* readProcessOutput throws
          /\ Respond(t, Caught(Exc("CompilationException", CompilerFailedMessage \o Cause)),
                     "IOFailure")
          /\ intr' = [intr EXCEPT ![t] = TRUE]
    /\ UNCHANGED <<fs, procs, nextSid, activeProcesses, processCounter, iter, kill, hist,
                   client>>

\* lines 196-202: the filter of the directory scan
ScanMatch(f, sid) ==
    /\ (f.ext = "exe" \/ f.ext = "")
    /\ ~f.dir
    /\ ~SameName(f, SourceFileOf(sid))

\* lines 175-212: the conventional names in order, then the scan
Candidates(files, sid) ==
    IF Exists(files, BaseExeFileOf(sid)) THEN {f \in files : SameName(f, BaseExeFileOf(sid))}
    ELSE IF Exists(files, BaseFileOf(sid)) THEN {f \in files : SameName(f, BaseFileOf(sid))}
    ELSE {f \in Listing(files) : ScanMatch(f, sid)}

\* lines 170-231: executeProgram locates the executable and starts it
executeProgram(t) ==
    /\ pc[t] = "e_locate"
    /\ \/ /\ Candidates(fs, req[t].sid) = {}                  \* lines 214-222
          /\ Respond(t, Caught(Exc("ExecutionException", NotFoundMessage)), "ArtifactMissing")
          /\ UNCHANGED <<intr, procs>>
       \/ \E f \in Candidates(fs, req[t].sid), out \in 0..MaxOut :
            /\ procs' = Append(procs, NewProc("exec", req[t].sid, out, FALSE, f))
            /\ req' = [req EXCEPT ![t].child = Len(procs) + 1]
            /\ pc' = [pc EXCEPT ![t] = "e_wait"]
            /\ UNCHANGED intr
       \/ /\ Candidates(fs, req[t].sid) # {}                  \* start() fails, lines 252-255
          /\ Respond(t, Caught(startFailure("execute")), "SpawnFailure")
          /\ intr' = [intr EXCEPT ![t] = TRUE]
          /\ UNCHANGED procs
    /\ UNCHANGED <<fs, nextSid, activeProcesses, processCounter, iter, kill, hist, client>>

\* lines 233-238: process.waitFor(executionTimeoutMs)
executeWait(t) ==
    /\ pc[t] = "e_wait"
    /\ IF HasExited(req[t].child)
         THEN /\ pc' = [pc EXCEPT ![t] = "e_read"]
              /\ UNCHANGED <<req, intr, procs>>
         ELSE IF intr[t]
         THEN /\ Respond(t, Caught(Exc("ExecutionException", ProgramFailedMessage \o Cause)),
                         "Interrupted")
              /\ UNCHANGED <<intr, procs>>
         ELSE \* the timeout elapses: ExecutionResult(false, ...), then lines 80-83
              /\ procs' = Destroy(procs, req[t].child)
              /\ Respond(t, runtimeError(ExecuteTimeoutMessage), "ExecuteTimeout")
              /\ UNCHANGED intr
    /\ UNCHANGED <<fs, nextSid, activeProcesses, processCounter, iter, kill, hist, client>>

\* what a program writes: text, blanks, line ends
OutChars == {"x", " ", "\n", "\r"}
RawOutputs == UNION {[1..k -> OutChars] : k \in 0..MaxRaw}
OneOutput == {<<"x">>}

\* lines 262-265: every line readLine() returns, followed by "\n"; a line ends
\* at "\n", "\r", "\r\n" or at the end of the stream
RECURSIVE ReadLines(_, _, _)
ReadLines(raw, i, open) ==
    IF i > Len(raw) THEN (IF open THEN <<"\n">> ELSE <<>>)
    ELSE IF raw[i] = "\n" THEN <<"\n">> \o ReadLines(raw, i + 1, FALSE)
    ELSE IF raw[i] = "\r"
         THEN <<"\n">> \o ReadLines(raw, IF i < Len(raw) /\ raw[i + 1] = "\n"
                                          THEN i + 2 ELSE i + 1, FALSE)
    ELSE <<raw[i]>> \o ReadLines(raw, i + 1, TRUE)

\* String.trim(): the characters up to U+0020 at both ends are dropped
Trim(x) ==
    LET keep == {i \in 1..Len(x) : x[i] \notin {" ", "\n", "\r"}}
    IN  IF keep = {} THEN <<>>
        ELSE SubSeq(x, CHOOSE i \in keep : \A j \in keep : i <= j,
                       CHOOSE i \in keep : \A j \in keep : i >= j)

\* lines 258-269
readProcessOutput(raw) == Trim(ReadLines(raw, 1, FALSE))

\* line 244: "\n... (output truncated)"
TruncationMarker == <<"\n", "... (output truncated)">>

\* the cut one character late
TruncatedLate(output) ==
    IF Len(output) > maxOutputLength + 1
    THEN SubSeq(output, 1, maxOutputLength) \o TruncationMarker
    ELSE output

\* lines 243-245
Truncated(output) ==
    IF Len(output) > maxOutputLength
    THEN SubSeq(output, 1, maxOutputLength) \o TruncationMarker
    ELSE output

\* lines 240-250, then lines 75-83
executeResult(t, raw) ==
    /\ pc[t] = "e_read"
    /\ EndOfStream(req[t].child)
    /\ \/ \E exitCode \in {0, 1} :
            /\ req' = [req EXCEPT
                         ![t].raw = raw,
                         ![t].output = readProcessOutput(raw),
                         ![t].exit = exitCode,
                         ![t].result = IF exitCode = 0
                                       THEN success(Truncated(readProcessOutput(raw)))
                                       ELSE runtimeError(Truncated(readProcessOutput(raw))),
                         ![t].why = IF exitCode = 0 THEN "Exited" ELSE "RuntimeFailure"]
            /\ pc' = [pc EXCEPT ![t] = "c_finally"]
            /\ UNCHANGED intr
       \/ \* the read throws
          /\ Respond(t, Caught(Exc("ExecutionException", ProgramFailedMessage \o Cause)),
                     "IOFailure")
          /\ intr' = [intr EXCEPT ![t] = TRUE]
    /\ UNCHANGED <<fs, procs, nextSid, activeProcesses, processCounter, iter, kill, hist,
                   client>>

\* lines 303-323: cleanupFiles(sourceFile, executableFile)
cleanupFiles(files, sid) ==
    LET afterSource ==
            IF Exists(files, SourceFileOf(sid))
            THEN Delete(Delete(Delete(files, SourceFileOf(sid)), BaseFileOf(sid)),
                        BaseExeFileOf(sid))
            ELSE files
    IN  Delete(afterSource, BaseFileOf(sid))

\* lines 95-98: the finally block, then the response is returned
compileFinally(t) ==
    /\ pc[t] = "c_finally"
    /\ fs' = cleanupFiles(fs, req[t].sid)
    /\ pc' = [pc EXCEPT ![t] = "done"]
    /\ UNCHANGED <<req, intr, procs, nextSid, activeProcesses, processCounter, iter, kill, hist,
                   client>>

\* the worker thread takes the next request
Return(t) ==
    /\ pc[t] = "done"
    /\ pc' = [pc EXCEPT ![t] = "idle"]
    /\ req' = [req EXCEPT ![t] = IdleReq]
    /\ UNCHANGED <<intr, fs, procs, nextSid, activeProcesses, processCounter, iter, kill, hist,
                   client>>

-----------------------------------------------------------------------------
(* The environment: external processes *)

\* a child that wrote all its output exits; more than the pipe holds is only
\* written while somebody drains the pipe
CanFinish(p) == procs[p].out <= PipeCap \/ procs[p].drain

ProcessExits(p) ==
    /\ procs[p].st = "running"
    /\ CanFinish(p)
    /\ \E held \in (IF procs[p].drain THEN {FALSE} ELSE BOOLEAN) :
          procs' = [procs EXCEPT ![p].st = "exited", ![p].out = 0, ![p].held = held]
    /\ IF procs[p].kind = "compile"
         THEN \E a \in Artifacts : fs' = Emit(fs, a, procs[p].owner)
         ELSE UNCHANGED fs
    /\ UNCHANGED <<pc, req, intr, nextSid, activeProcesses, processCounter, iter, kill, hist,
                   client>>

\* the last descendant holding the write end of the pipe lets go of it
PipeReleased(p) ==
    /\ procs[p].held
    /\ procs' = [procs EXCEPT ![p].held = FALSE]
    /\ UNCHANGED <<pc, req, intr, fs, nextSid, activeProcesses, processCounter, iter, kill,
                   hist, client>>

ProcessDies(p) ==
    /\ procs[p].st = "killed"
    /\ procs' = [procs EXCEPT ![p].st = "exited"]
    /\ UNCHANGED <<pc, req, intr, fs, nextSid, activeProcesses, processCounter, iter, kill,
                   hist, client>>

-----------------------------------------------------------------------------
(* The process registry of TrivilSyntaxAnalysisService *)

Ids(reg) == {e.id : e \in reg}
Entry(id, p) == [id |-> id, proc |-> p]

\* activeProcesses.put(processId, process)
Put(reg, id, p) == reg \cup {Entry(id, p)}
\* activeProcesses.remove(processId)
Remove(reg, id) == {e \in reg : e.id # id}

\* the removals that take an entry out of the registry, counted per id
Removed(h, before, after) ==
    [i \in DOMAIN h |->
        IF i \in Ids(before) \ Ids(after) THEN [h[i] EXCEPT !.rem = @ + 1] ELSE h[i]]

NoIter == [todo |-> {}, cur |-> 0]
Sweeping(a) == pc[a] \in {"sweep", "r_sweep"}

-----------------------------------------------------------------------------
(* Tokens: the static pass, the mining of the AST dump, the merge.  Text is  *)
(* a sequence of characters; "i" stands for the one-letter keyword of       *)
(* TRIVIL_KEYWORDS (the conjunction), "x" for any other letter.             *)

TokenChars == {" ", "x", "i"}
TokenSources ==
    {NullSource} \cup
    {[isNull |-> FALSE, text |-> x] : x \in UNION {[1..k -> TokenChars] : k \in 0..MaxSrcLen}}

\* lines 39-45; every word is written in ASCII: "i" is the one-letter
\* conjunction, "fn" the function keyword, "l" the declaration keyword
\* (let), "r" the return keyword, "T" a built-in type name
TRIVIL_KEYWORDS == {<<"i">>, <<"f", "n">>, <<"l">>, <<"r">>}
BUILT_IN_TYPES == {<<"T">>}
\* line 47
BUILT_IN_FUNCTIONS == {}

FnKeyword == <<"f", "n">>
LetKeyword == <<"l">>

\* character classes of the patterns at lines 51-55; "0" is kept for NUL
Letters == {"x", "i", "f", "n", "l", "r", "T", "s", "a", "b"}
Digits == {"1"}
Whitespace == {" "}
\* line 54: IDENTIFIER_PATTERN
IdentStart == Letters \cup {"_"}
IdentPart == Letters \cup Digits \cup {"_", "-"}
\* the characters between which \b finds no boundary
WordChars == Letters \cup Digits \cup {"_"}
\* line 55: OPERATOR_PATTERN
OperatorChars ==
    {"+", "-", "*", "/", "=", "<", ">", "!", "&", "|", "^", "%", ":", ";", ",", ".",
     "(", ")", "[", "]", "{", "}"}

NoTag == [kind |-> "none", payload |-> <<>>]
Tag(kind, payload) == [kind |-> kind, payload |-> payload]

\* dto/SyntaxToken
SyntaxToken(startLine, startColumn, endLine, endColumn, tokenType, value, semanticInfo) ==
    [startLine |-> startLine, startColumn |-> startColumn, endLine |-> endLine,
     endColumn |-> endColumn, tokenType |-> tokenType, value |-> value,
     semanticInfo |-> semanticInfo]

\* lines 950-957: NUL dropped, "\r\n" and "\r" become "\n"
RECURSIVE sanitizeInput(_)
sanitizeInput(x) ==
    IF x = <<>> THEN <<>>
    ELSE IF Head(x) = "0" THEN sanitizeInput(Tail(x))
    ELSE IF Head(x) = "\r"
         THEN <<"\n">> \o sanitizeInput(IF Len(x) > 1 /\ x[2] = "\n" THEN Tail(Tail(x))
                                        ELSE Tail(x))
    ELSE <<Head(x)>> \o sanitizeInput(Tail(x))

\* lines 624-635
classifyIdentifier(token) ==
    IF token \in TRIVIL_KEYWORDS THEN "KEYWORD"
    ELSE IF token \in BUILT_IN_TYPES THEN "BUILT_IN_TYPE"
    ELSE IF token \in BUILT_IN_FUNCTIONS THEN "BUILT_IN_FUNCTION"
    ELSE "IDENTIFIER"

\* a greedy class*: the last index of the run of class characters from i on
RunEnd(line, i, class) ==
    LET stops == {j \in i..Len(line) : line[j] \notin class}
    IN  IF stops = {} THEN Len(line)
        ELSE (CHOOSE j \in stops : \A k \in stops : j <= k) - 1

\* \s*: the first index from i on that holds no white space
SkipSpace(line, i) == RunEnd(line, i, Whitespace) + 1

\* a literal word at index i
StartsWith(line, i, word) ==
    /\ i + Len(word) - 1 <= Len(line)
    /\ SubSeq(line, i, i + Len(word) - 1) = word

\* lines 454-461 and 562-568: every match of fn\s+(name)\s*\( from i on
RECURSIVE FunctionNames(_, _)
FunctionNames(line, i) ==
    IF i > Len(line) THEN {}
    ELSE LET a == i + Len(FnKeyword)
             b == SkipSpace(line, a)
             e == RunEnd(line, b, IdentPart)
             q == SkipSpace(line, e + 1)
         IN  IF /\ StartsWith(line, i, FnKeyword)
                /\ b > a /\ b <= Len(line) /\ line[b] \in IdentStart
                /\ q <= Len(line) /\ line[q] = "("
             THEN {SubSeq(line, b, e)} \cup FunctionNames(line, q + 1)
             ELSE FunctionNames(line, i + 1)

\* the scan that stops at its first match
RECURSIVE NamesBeforeFirstOnly(_, _, _)
NamesBeforeFirstOnly(text, i, stop) ==
    IF i > Len(text) THEN {}
    ELSE LET e == RunEnd(text, i, IdentPart)
             q == SkipSpace(text, e + 1)
         IN  IF text[i] \in IdentStart /\ q <= Len(text) /\ text[q] = stop
             THEN {SubSeq(text, i, e)}
             ELSE NamesBeforeFirstOnly(text, i + 1, stop)

\* lines 468-475, 573-581 and 585-595: every match of (name)\s*stop from i on
RECURSIVE NamesBefore(_, _, _)
NamesBefore(text, i, stop) ==
    IF i > Len(text) THEN {}
    ELSE LET e == RunEnd(text, i, IdentPart)
             q == SkipSpace(text, e + 1)
         IN  IF text[i] \in IdentStart /\ q <= Len(text) /\ text[q] = stop
             THEN {SubSeq(text, i, e)} \cup NamesBefore(text, q + 1, stop)
             ELSE NamesBefore(text, i + 1, stop)

\* lines 463-476 and 570-582: every match of \(([^)]+)\) from i on, and in
\* each the names a colon follows
RECURSIVE ParameterNames(_, _)
ParameterNames(line, i) ==
    IF i > Len(line) THEN {}
    ELSE LET closes == {j \in (i + 1)..Len(line) : line[j] = ")"}
             q == CHOOSE j \in closes : \A k \in closes : j <= k
         IN  IF line[i] = "(" /\ closes # {} /\ q >= i + 2
             THEN NamesBefore(SubSeq(line, i + 1, q - 1), 1, ":")
                     \cup ParameterNames(line, q + 1)
             ELSE ParameterNames(line, i + 1)

\* lines 484-492: every match of let\s+(name)\s*= from i on
RECURSIVE LetNames(_, _)
LetNames(line, i) ==
    IF i > Len(line) THEN {}
    ELSE LET a == i + Len(LetKeyword)
             b == SkipSpace(line, a)
             e == RunEnd(line, b, IdentPart)
             q == SkipSpace(line, e + 1)
         IN  IF /\ StartsWith(line, i, LetKeyword)
                /\ b > a /\ b <= Len(line) /\ line[b] \in IdentStart
                /\ q <= Len(line) /\ line[q] = "="
             THEN {SubSeq(line, b, e)} \cup LetNames(line, q + 1)
             ELSE LetNames(line, i + 1)

\* lines 494-505: every match of (name)\s*=\s*[^=] from i on; the last
\* character is the one after the white space, or its last blank.  Keywords
\* and built-in type names are left out.
RECURSIVE AssignNames(_, _)
AssignNames(line, i) ==
    IF i > Len(line) THEN {}
    ELSE LET e == RunEnd(line, i, IdentPart)
             q == SkipSpace(line, e + 1)
             w == SkipSpace(line, q + 1)
             end == IF w <= Len(line) /\ line[w] # "=" THEN w
                    ELSE IF w > q + 1 THEN w - 1
                    ELSE 0
             name == SubSeq(line, i, e)
         IN  IF line[i] \in IdentStart /\ q <= Len(line) /\ line[q] = "=" /\ end # 0
             THEN (IF name \in TRIVIL_KEYWORDS \/ name \in BUILT_IN_TYPES THEN {} ELSE {name})
                     \cup AssignNames(line, end + 1)
             ELSE AssignNames(line, i + 1)

\* lines 479-509
extractVariableNames(lines) ==
    UNION {LetNames(lines[k], 1) \cup AssignNames(lines[k], 1) : k \in 1..Len(lines)}

\* lines 436-438: pass 1 over every line, comments included
AllFunctionNames(lines) == UNION {FunctionNames(lines[k], 1) : k \in 1..Len(lines)}
AllParameterNames(lines) == UNION {ParameterNames(lines[k], 1) : k \in 1..Len(lines)}

\* lines 513-521: COMMENT_PATTERN, the index of the first "//" or 0
CommentStart(line) ==
    LET at == {j \in 1..(Len(line) - 1) : line[j] = "/" /\ line[j + 1] = "/"}
    IN  IF at = {} THEN 0 ELSE CHOOSE j \in at : \A k \in at : j <= k

\* line 520: the line without its comment
StripComment(line) ==
    IF CommentStart(line) = 0 THEN line ELSE SubSeq(line, 1, CommentStart(line) - 1)

\* line 52: STRING_PATTERN from an opening quote on; j is the index the body
\* has reached, the answer the index of the closing quote or 0
RECURSIVE StringEnd(_, _)
StringEnd(line, j) ==
    IF j > Len(line) THEN 0
    ELSE IF line[j] = "\"" THEN j
    ELSE IF line[j] = "\\" THEN (IF j + 1 <= Len(line) THEN StringEnd(line, j + 2) ELSE 0)
    ELSE StringEnd(line, j + 1)

\* lines 523-530: the ranges [start, end) of the string literals
RECURSIVE StringRanges(_, _)
StringRanges(line, i) ==
    IF i > Len(line) THEN <<>>
    ELSE IF line[i] = "\"" /\ StringEnd(line, i + 1) # 0
         THEN <<<<i - 1, StringEnd(line, i + 1)>>>>
                 \o StringRanges(line, StringEnd(line, i + 1) + 1)
    ELSE StringRanges(line, i + 1)

\* lines 637-640
isInStringLiteral(position, stringRanges) ==
    \E k \in 1..Len(stringRanges) :
        position >= stringRanges[k][1] /\ position < stringRanges[k][2]

StringTokens(line, lineNum, stringRanges) ==
    [k \in 1..Len(stringRanges) |->
        SyntaxToken(lineNum, stringRanges[k][1], lineNum, stringRanges[k][2], "STRING_LITERAL",
                    SubSeq(line, stringRanges[k][1] + 1, stringRanges[k][2]), NoTag)]

\* \b before index j
Boundary(line, j) ==
    (j - 1 >= 1 /\ line[j - 1] \in WordChars) # (j <= Len(line) /\ line[j] \in WordChars)

\* line 53: NUMBER_PATTERN at index i, the index of its last character or 0
NumberEnd(line, i) ==
    IF line[i] \notin Digits \/ ~Boundary(line, i) THEN 0
    ELSE LET e == RunEnd(line, i, Digits)
             hasFraction == e + 2 <= Len(line) /\ line[e + 1] = "." /\ line[e + 2] \in Digits
             e2 == RunEnd(line, e + 2, Digits)
         IN  IF hasFraction /\ Boundary(line, e2 + 1) THEN e2
             ELSE IF Boundary(line, e + 1) THEN e
             ELSE 0

\* lines 532-539
RECURSIVE Numbers(_, _, _, _)
Numbers(line, lineNum, i, stringRanges) ==
    IF i > Len(line) THEN <<>>
    ELSE IF NumberEnd(line, i) = 0 THEN Numbers(line, lineNum, i + 1, stringRanges)
    ELSE LET end == NumberEnd(line, i)
         IN  (IF isInStringLiteral(i - 1, stringRanges) THEN <<>>
              ELSE <<SyntaxToken(lineNum, i - 1, lineNum, end, "NUMBER_LITERAL",
                                 SubSeq(line, i, end), NoTag)>>)
                \o Numbers(line, lineNum, end + 1, stringRanges)

\* lines 597-621: every match of IDENTIFIER_PATTERN from index i on
RECURSIVE Identifiers(_, _, _, _, _, _, _)
Identifiers(line, lineNum, i, stringRanges, functions, parameters, variables) ==
    IF i > Len(line) THEN <<>>
    ELSE IF line[i] \notin IdentStart
         THEN Identifiers(line, lineNum, i + 1, stringRanges, functions, parameters, variables)
    ELSE LET end == RunEnd(line, i, IdentPart)
             token == SubSeq(line, i, end)
             tokenType == IF token \in functions THEN "function.user"
                          ELSE IF token \in parameters THEN "variable.parameter"
                          ELSE IF token \in variables THEN "variable.user"
                          ELSE classifyIdentifier(token)
         IN  (IF isInStringLiteral(i - 1, stringRanges) THEN <<>>
              ELSE <<SyntaxToken(lineNum, i - 1, lineNum, end, tokenType, token, NoTag)>>)
                \o Identifiers(line, lineNum, end + 1, stringRanges, functions, parameters,
                               variables)

\* lines 555-622: the names of the line itself, the calls of known
\* functions, then the identifiers
analyzeGlobalContextAwareIdentifiers(line, lineNum, stringRanges, gFunctions, gParameters, gVariables) ==
    LET localFunctionNames == FunctionNames(line, 1)
        localParameterNames == ParameterNames(line, 1)
        functionCalls == {c \in NamesBefore(line, 1, "(") :
                             c \in gFunctions \/ c \in localFunctionNames}
    IN  Identifiers(line, lineNum, 1, stringRanges,
                    localFunctionNames \cup gFunctions \cup functionCalls,
                    localParameterNames \cup gParameters,
                    gVariables)

\* operator tokens that end where they start
RECURSIVE OperatorsZeroWidth(_, _, _, _)
OperatorsZeroWidth(line, lineNum, i, stringRanges) ==
    IF i > Len(line) THEN <<>>
    ELSE (IF line[i] \in OperatorChars /\ ~isInStringLiteral(i - 1, stringRanges)
          THEN <<SyntaxToken(lineNum, i - 1, lineNum, i - 1, "OPERATOR", <<line[i]>>, NoTag)>>
          ELSE <<>>)
            \o OperatorsZeroWidth(line, lineNum, i + 1, stringRanges)

\* lines 543-550
RECURSIVE Operators(_, _, _, _)
Operators(line, lineNum, i, stringRanges) ==
    IF i > Len(line) THEN <<>>
    ELSE (IF line[i] \in OperatorChars /\ ~isInStringLiteral(i - 1, stringRanges)
          THEN <<SyntaxToken(lineNum, i - 1, lineNum, i, "OPERATOR", <<line[i]>>, NoTag)>>
          ELSE <<>>)
            \o Operators(line, lineNum, i + 1, stringRanges)

\* lines 509-553: the comment, then the rest of the line category by category
analyzeLineTokensWithGlobalContext(line, lineNum, gFunctions, gParameters, gVariables) ==
    LET c == CommentStart(line)
        code == StripComment(line)
        stringRanges == StringRanges(code, 1)
    IN  (IF c = 0 THEN <<>>
         ELSE <<SyntaxToken(lineNum, c - 1, lineNum, Len(line), "COMMENT",
                            SubSeq(line, c, Len(line)), NoTag)>>)
           \o StringTokens(code, lineNum, stringRanges)
           \o Numbers(code, lineNum, 1, stringRanges)
           \o analyzeGlobalContextAwareIdentifiers(code, lineNum, stringRanges, gFunctions,
                                                   gParameters, gVariables)
           \o Operators(code, lineNum, 1, stringRanges)

\* String.split("\n"): the lines, trailing empty ones dropped
RECURSIVE SplitLines(_, _)
SplitLines(x, cur) ==
    IF x = <<>> THEN <<cur>>
    ELSE IF Head(x) = "\n" THEN <<cur>> \o SplitLines(Tail(x), <<>>)
    ELSE SplitLines(Tail(x), Append(cur, Head(x)))

RECURSIVE DropTrailingEmpty(_)
DropTrailingEmpty(ls) ==
    IF Len(ls) > 1 /\ ls[Len(ls)] = <<>> THEN DropTrailingEmpty(SubSeq(ls, 1, Len(ls) - 1))
    ELSE ls

LinesOf(sourceCode) == DropTrailingEmpty(SplitLines(sourceCode, <<>>))

RECURSIVE TokensOfLines(_, _, _, _, _)
TokensOfLines(ls, n, functions, parameters, variables) ==
    IF n > Len(ls) THEN <<>>
    ELSE analyzeLineTokensWithGlobalContext(ls[n], n - 1, functions, parameters, variables)
            \o TokensOfLines(ls, n + 1, functions, parameters, variables)

\* the static pass with name sets that outlive the call: the names of every
\* text on record are in them
performStaticLexicalAnalysisSharedSets(sourceCode) ==
    LET lines == LinesOf(sourceCode)
        known == UNION {{LinesOf(req[t].src.text)} : t \in {u \in Threads : req[u].mode = "tokenize"}}
        every == UNION {{ls[k] : k \in 1..Len(ls)} : ls \in known}
    IN  TokensOfLines(lines, 1,
                      AllFunctionNames(lines) \cup UNION {FunctionNames(l, 1) : l \in every},
                      AllParameterNames(lines) \cup UNION {ParameterNames(l, 1) : l \in every},
                      extractVariableNames(lines))

\* lines 426-450: pass 1 gathers the names of every line, pass 2 tokenizes
\* line by line
performStaticLexicalAnalysis(sourceCode) ==
    LET lines == LinesOf(sourceCode)
    IN  TokensOfLines(lines, 1, AllFunctionNames(lines), AllParameterNames(lines),
                      extractVariableNames(lines))

\* the static pass called on its own: text in, tokens out, nothing else touched
staticPass(t, sourceCode) ==
    /\ pc[t] = "idle"
    /\ req' = [req EXCEPT ![t] =
                 [IdleReq EXCEPT !.mode = "tokenize",
                                 !.src = [isNull |-> FALSE, text |-> sourceCode],
                                 !.toks = performStaticLexicalAnalysis(sourceCode)]]
    /\ UNCHANGED <<pc, intr, fs, procs, nextSid, activeProcesses, processCounter, iter, kill,
                   hist, client>>

\* texts for the static pass: every short text over a letter, a digit, the
\* point, the hyphen, the slash, the quote, the blank and the line break
LexChars == {"x", "1", ".", "-", "/", "\"", " ", "\n"}
ShortTexts == UNION {[1..k -> LexChars] : k \in 0..LexLen}

\* fn name(p1:T, p2:T):T{r p1+p2;}
DefNames == {<<"s">>, <<"a">>, <<"b">>}
FunctionDefinition(name, p1, p2) ==
    <<"f", "n", " ">> \o name \o <<"(">> \o p1 \o <<":", "T", ",", " ">> \o p2
        \o <<":", "T", ")", ":", "T", "{", "r", " ">> \o p1 \o <<"+">> \o p2 \o <<";", "}">>
FunctionDefinitions == {FunctionDefinition(n, p, q) : n \in DefNames, p \in DefNames, q \in DefNames}

\* fn name(p:T)
Header(name, p) == <<"f", "n", " ">> \o name \o <<"(">> \o p \o <<":", "T", ")">>
TwoHeaders ==
    {Header(n1, p1) \o <<"\n">> \o Header(n2, p2) :
        n1 \in DefNames, p1 \in DefNames, n2 \in DefNames, p2 \in DefNames}

\* declarations, assignments, comparisons, a call, a string and a comment
Declarations ==
    {<<"l", " ", "a", "=", "1", "\n", "a", "+", "b">>,
     <<"l", " ", "a", " ", "=">>,
     <<"a", "=", "b", "=", "1">>,
     <<"a", "=", "=", "b">>,
     <<"a", " ", "=", " ", "=">>,
     <<"T", "=", "1", "\n", "i", "=", "1">>,
     <<"f", "n", " ", "s", "(", ")", "\n", "s", "(", "a", ")">>,
     <<"s", "(", "\"", "a", "\\", "\"", "b", "\"", ")", " ", "/", "/", "b">>,
     <<"\"", "a", "/", "/", "b", "\"">>}

LexSources == ShortTexts \cup FunctionDefinitions \cup TwoHeaders \cup Declarations

\* texts two callers tokenize again and again
PairSources ==
    UNION {[1..k -> {"s", "a"}] : k \in 1..2}
        \cup {Header(n, p) : n \in {<<"s">>, <<"a">>}, p \in {<<"s">>, <<"a">>}}
        \cup {<<"s", "(", "a", ")">>, <<"x", "-", "1", ".", "1">>}

\* the names an AST dump speaks of
Names == {<<"x">>, <<"x", "x">>, <<"i">>}

\* a dump is the sequence of the nodes the patterns of parseASTForSemanticInfo
\* match: (Function "name" "functype" [External]), (Import "path"),
\* (VarDecl "name" "type"), (IdentExpr ".." "name"), (SelectorExpr "functype"
\* "name"), (CallExpr .. (IdentExpr "functype" RO "name").  The flag says:
\* External follows (Function), the path holds "::" (Import), the type is
\* not empty (VarDecl), the text holds "= name" or "name =" (IdentExpr)
Node(kind, name, flag) == [node |-> kind, name |-> name, flag |-> flag]
Nodes ==
    {Node(k, n, f) : k \in {"Function", "Import", "VarDecl", "IdentExpr"}, n \in Names,
                     f \in BOOLEAN}
    \cup {Node(k, n, FALSE) : k \in {"SelectorExpr", "CallExpr"}, n \in Names}
Dumps == {<<>>} \cup {<<n>> : n \in Nodes}
           \cup {<<Node("Function", <<"x">>, FALSE), Node("IdentExpr", <<"x">>, FALSE)>>,
                 <<Node("Function", <<"x", "x">>, TRUE), Node("CallExpr", <<"x", "x">>, FALSE)>>}
OneDump == {<<>>}

\* Map.put
PutInfo(info, name, tag) == [n \in DOMAIN info \cup {name} |-> IF n = name THEN tag ELSE info[n]]

\* the section holds (Function "name" "functype" among its first upTo nodes
HasFunction(dump, name, upTo) ==
    \E j \in 1..upTo : dump[j].node = "Function" /\ dump[j].name = name

\* lines 662-775: what one match of pattern number rule puts into the map
Mined(rule, dump, i, info) ==
    LET n == dump[i]
        name == n.name
        known == name \in DOMAIN info
        keyword == name \in TRIVIL_KEYWORDS
    IN  CASE rule = 1 /\ n.node = "Function" /\ ~n.flag /\ Len(name) > 1 ->
                PutInfo(info, name, Tag("USER_FUNCTION", <<>>))
          [] rule = 2 /\ n.node = "Import" /\ n.flag ->
                PutInfo(info, name, Tag("IMPORTED_CLASS", <<":", "path">>))
          [] rule = 3 /\ n.node = "VarDecl" /\ ~keyword /\ Len(name) > 1 ->
                PutInfo(info, name, Tag("USER_VARIABLE", <<":", IF n.flag THEN "type" ELSE "">>))
          [] rule = 4 /\ n.node = "IdentExpr" /\ ~keyword /\ name \notin BUILT_IN_TYPES
                /\ ~known /\ ~HasFunction(dump, name, i - 1) ->
                PutInfo(info, name, Tag("FUNCTION_PARAMETER", <<>>))
          [] rule = 5 /\ n.node = "SelectorExpr" /\ ~known /\ ~keyword ->
                PutInfo(info, name, Tag("IMPORTED_METHOD", <<>>))
          [] rule = 6 /\ n.node = "CallExpr" /\ ~known /\ Len(name) > 1 /\ ~keyword
                /\ HasFunction(dump, name, Len(dump)) ->
                PutInfo(info, name, Tag("USER_FUNCTION", <<>>))
          [] rule = 7 /\ n.node = "Function" /\ n.flag /\ ~known ->
                PutInfo(info, name, Tag("IMPORTED_FUNCTION", <<>>))
          [] rule = 8 /\ n.node = "IdentExpr" /\ ~known /\ ~keyword /\ name \notin BUILT_IN_TYPES
                /\ Len(name) > 1
                /\ (n.flag \/ \E j \in 1..Len(dump) :
                                 dump[j].node = "VarDecl" /\ dump[j].name = name) ->
                PutInfo(info, name, Tag("USER_VARIABLE", <<>>))
          [] OTHER -> info

\* the patterns in the order of the code, each over the whole dump
RECURSIVE Mine(_, _, _, _)
Mine(rule, dump, i, info) ==
    IF rule > 8 THEN info
    ELSE IF i > Len(dump) THEN Mine(rule + 1, dump, 1, info)
    ELSE Mine(rule, dump, i + 1, Mined(rule, dump, i, info))

\* lines 642-778; an empty dump has no user code section (lines 651-656)
parseASTForSemanticInfo(astOutput) ==
    IF astOutput = <<>> THEN <<>> ELSE Mine(1, astOutput, 1, <<>>)

\* lines 915-935
mapSemanticTypeToTokenType(semanticType) ==
    CASE semanticType = Tag("USER_FUNCTION", <<>>) -> "function.user"
      [] semanticType = Tag("USER_VARIABLE", <<>>) -> "variable.user"
      [] semanticType = Tag("FUNCTION_PARAMETER", <<>>) -> "variable.parameter"
      [] semanticType = Tag("IMPORTED_CLASS", <<>>) -> "class.imported"
      [] semanticType \in {Tag("IMPORTED_METHOD", <<>>), Tag("IMPORTED_FUNCTION", <<>>)} ->
            "function.imported"
      [] semanticType.kind = "USER_VARIABLE" -> "variable.user"
      [] semanticType.kind = "FUNCTION_PARAMETER" -> "variable.parameter"
      [] semanticType.kind = "IMPORTED_CLASS" -> "class.imported"
      [] OTHER -> "identifier"

\* lines 937-948; none of the type names of line 943 can be spelled
improveBasicTokenType(token, tokenText) ==
    IF tokenText \in TRIVIL_KEYWORDS THEN "keyword" ELSE token.tokenType

\* lines 875-913
enhanceTokensWithSemanticInfo(toks, semanticInfo) ==
    [i \in 1..Len(toks) |->
        IF toks[i].value \in DOMAIN semanticInfo
        THEN [toks[i] EXCEPT !.tokenType = mapSemanticTypeToTokenType(semanticInfo[toks[i].value]),
                             !.semanticInfo = semanticInfo[toks[i].value]]
        ELSE [toks[i] EXCEPT !.tokenType = improveBasicTokenType(toks[i], toks[i].value)]]

-----------------------------------------------------------------------------
(* TrivilSyntaxAnalysisService.analyzeSyntax *)

\* SyntaxAnalysisResponse factories
tokens(toks) == [Outcome("tokens", TRUE) EXCEPT !.toks = toks]
error(msg)   == [Outcome("error", TRUE) EXCEPT !.msg = msg]

AnalysisFailedMessage == <<"Syntax", "analysis", "failed">>

\* a failure of the semantic step answered as an error
semanticFailedSurfaces(toks) == error(AnalysisFailedMessage \o Cause)

\* lines 193-196 and 203-205: the failure is logged, line 225 answers with
\* the tokens of the static pass
semanticFailed(toks) == tokens(toks)

\* lines 150-161: a null source throws at line 155 and is answered at lines
\* 227-233; otherwise the static pass runs on the sanitized text
analyzeSyntax(t, s) ==
    /\ pc[t] = "idle" /\ pc["hook"] = "idle"
    /\ nextSid < MaxReq
    /\ nextSid' = nextSid + 1
    /\ IF s.isNull
         THEN /\ req' = [req EXCEPT ![t] = [IdleReq EXCEPT !.mode = "analyze", !.src = s,
                                              !.result = error(AnalysisFailedMessage \o Cause)]]
              /\ pc' = [pc EXCEPT ![t] = "done"]
         ELSE /\ req' = [req EXCEPT ![t] =
                           [IdleReq EXCEPT !.mode = "analyze", !.src = s, !.sid = nextSid + 1,
                              !.toks = performStaticLexicalAnalysis(sanitizeInput(s.text))]]
              /\ pc' = [pc EXCEPT ![t] = "a_mkdir"]
    /\ UNCHANGED <<intr, fs, procs, activeProcesses, processCounter, iter, kill, hist, client>>

\* lines 165-183: the session directory and the wrapped source in it
createIsolatedDir(t) ==
    /\ pc[t] = "a_mkdir"
    /\ \/ /\ fs' = Create(Create(fs, SessionDirOf(req[t].sid)), MainTriOf(req[t].sid))
          /\ pc' = [pc EXCEPT ![t] = "r_spawn"]
          /\ req' = [req EXCEPT ![t].touched = TRUE]
       \/ /\ fs' = Create(fs, SessionDirOf(req[t].sid))      \* writeString throws
          /\ pc' = [pc EXCEPT ![t] = "a_cleanup"]
          /\ req' = [req EXCEPT ![t].touched = TRUE, ![t].why = "IOFailure"]
       \/ /\ pc' = [pc EXCEPT ![t] = "done"]                  \* createDirectories throws
          /\ req' = [req EXCEPT ![t].touched = TRUE, ![t].why = "IOFailure",
                                 ![t].result = semanticFailed(req[t].toks)]
          /\ UNCHANGED fs
    /\ UNCHANGED <<intr, procs, nextSid, activeProcesses, processCounter, iter, kill, hist,
                   client>>

\* lines 307-344: the id, the process, its registration and its output reader
runCompilerToolSafely(t) ==
    /\ pc[t] = "r_spawn"
    /\ processCounter' = processCounter + 1
    /\ \/ /\ procs' = Append(procs, NewProc("ast", req[t].sid, MaxOut, TRUE, NoFile))
          /\ activeProcesses' = Put(activeProcesses, processCounter + 1, Len(procs) + 1)
          \* a traversal under way meets the new entry or misses it
          /\ \E seenBy \in SUBSET {a \in Actors : Sweeping(a)} :
                iter' = [a \in Actors |->
                            IF a \in seenBy
                            THEN [iter[a] EXCEPT !.todo = @ \cup {processCounter + 1}]
                            ELSE iter[a]]
          /\ \E seen \in BOOLEAN :
                kill' = IF seen /\ pc["hook"] = "d_kill"
                        THEN kill \cup {processCounter + 1} ELSE kill
          /\ hist' = Append(hist, [reg |-> 1, rem |-> 0])
          /\ req' = [req EXCEPT ![t].child = Len(procs) + 1, ![t].pid = processCounter + 1,
                                 ![t].spawned = TRUE]
          /\ pc' = [pc EXCEPT ![t] = "r_wait"]
          /\ UNCHANGED intr
       \/ /\ hist' = Append(hist, [reg |-> 0, rem |-> 0])      \* start() throws, lines 378-383
          /\ req' = [req EXCEPT ![t].pid = processCounter + 1, ![t].why = "SpawnFailure"]
          /\ intr' = [intr EXCEPT ![t] = TRUE]
          /\ pc' = [pc EXCEPT ![t] = "r_finally"]
          /\ UNCHANGED <<procs, activeProcesses, iter, kill>>
    /\ UNCHANGED <<fs, nextSid, client>>

\* lines 346-383: process.waitFor(compilationTimeoutMs); a process that has
\* exited hands over its exit code and its output, "" if the reader failed
runWait(t, exitCode, astOutput) ==
    /\ pc[t] = "r_wait"
    /\ IF HasExited(req[t].child)
         THEN /\ pc' = [pc EXCEPT ![t] = "r_finally"]
              /\ req' = [req EXCEPT ![t].why = "Exited", ![t].exit = exitCode,
                                     ![t].ast = astOutput]
              /\ UNCHANGED <<intr, procs, iter>>
         ELSE IF intr[t]
         THEN \* InterruptedException clears the flag; the catch block kills and sets it
              /\ procs' = DestroyAndWait(procs, req[t].child, FALSE)
              /\ pc' = [pc EXCEPT ![t] = "r_finally"]
              /\ req' = [req EXCEPT ![t].why = "Interrupted"]
              /\ UNCHANGED <<intr, iter>>
         ELSE \* the timeout elapses: kill, then a sweep on this thread
              /\ procs' = DestroyAndWait(procs, req[t].child, intr[t])
              /\ iter' = [iter EXCEPT ![t] = [NoIter EXCEPT !.todo = Ids(activeProcesses)]]
              /\ pc' = [pc EXCEPT ![t] = "r_sweep"]
              /\ req' = [req EXCEPT ![t].why = "CompileTimeout"]
              /\ UNCHANGED intr
    /\ UNCHANGED <<fs, nextSid, activeProcesses, processCounter, kill, hist, client>>

\* a finally block that forgets the registry
FinallyKeeps(reg, id) == reg

\* lines 384-390: the finally block
FinallyRemove(reg, id) == Remove(reg, id)

runFinally(t) ==
    /\ pc[t] = "r_finally"
    /\ activeProcesses' = FinallyRemove(activeProcesses, req[t].pid)
    /\ hist' = Removed(hist, activeProcesses, activeProcesses')
    /\ procs' = IF req[t].child # NoProc /\ IsAlive(req[t].child)
                THEN DestroyAndWait(procs, req[t].child, intr[t])
                ELSE procs
    /\ pc' = [pc EXCEPT ![t] = "a_cleanup"]
    /\ UNCHANGED <<req, intr, fs, nextSid, processCounter, iter, kill, client>>

\* lines 198-201 and 959-976: cleanupDirectory(isolatedDir)
cleanupDirectory(files, sid) ==
    {f \in files : ~(SameName(f, SessionDirOf(sid)) \/ f.loc = sid)}

\* the output mined whether or not the run returned
returnedOutputAlways(why) == TRUE

\* lines 185-196: lines 188-190 are reached only if runCompilerToolSafely
\* returned its output, which it does for every exit code (lines 367-376)
returnedOutput(why) == why = "Exited"

\* lines 187-225: the output of a run that returned is mined and merged into
\* the tokens; then the session directory is removed and the tokens answered
analyzeFinally(t) ==
    /\ pc[t] = "a_cleanup"
    /\ fs' = cleanupDirectory(fs, req[t].sid)
    /\ req' = [req EXCEPT ![t].result =
                  IF returnedOutput(req[t].why)
                  THEN tokens(enhanceTokensWithSemanticInfo(
                                 req[t].toks, parseASTForSemanticInfo(req[t].ast)))
                  ELSE semanticFailed(req[t].toks)]
    /\ pc' = [pc EXCEPT ![t] = "done"]
    /\ UNCHANGED <<intr, procs, nextSid, activeProcesses, processCounter, iter, kill, hist,
                   client>>

-----------------------------------------------------------------------------
(* cleanupZombieProcesses: run by the scheduler thread every 120 s, and by   *)
(* a request thread whose compiler run timed out.  removeIf visits the       *)
(* entries present when it starts, and may visit entries added meanwhile.    *)

\* lines 65-78: the scheduled task starts
sweepBegin ==
    /\ pc["sweeper"] = "idle" /\ pc["hook"] = "idle"
    /\ pc' = [pc EXCEPT !["sweeper"] = "sweep"]
    /\ iter' = [iter EXCEPT !["sweeper"] = [NoIter EXCEPT !.todo = Ids(activeProcesses)]]
    /\ UNCHANGED <<req, intr, fs, procs, nextSid, activeProcesses, processCounter, kill, hist,
                   client>>

\* lines 400-403: process.isAlive()
sweepAlive(a) ==
    /\ Sweeping(a) /\ iter[a].cur = 0
    /\ \E e \in activeProcesses :
         /\ e.id \in iter[a].todo
         /\ IF ~IsAlive(e.proc)
              THEN /\ activeProcesses' = activeProcesses \ {e}
                   /\ iter' = [iter EXCEPT ![a].todo = @ \ {e.id}]
              ELSE /\ iter' = [iter EXCEPT ![a].todo = @ \ {e.id}, ![a].cur = e.id]
                   /\ UNCHANGED activeProcesses
    /\ hist' = Removed(hist, activeProcesses, activeProcesses')
    /\ UNCHANGED <<pc, req, intr, fs, procs, nextSid, processCounter, kill, client>>

\* the verdict inverted
RemoveIfInverted(finished) == finished

\* lines 405-420: the verdict on an entry whose process answered isAlive()
RemoveIfVerdict(finished) == ~finished

\* lines 405-420: process.waitFor(0), then the kill
sweepPoll(a) ==
    /\ Sweeping(a) /\ iter[a].cur # 0
    /\ LET id == iter[a].cur
           found == {e \in activeProcesses : e.id = id}
       IN  /\ iter' = [iter EXCEPT ![a].cur = 0]
           /\ IF found = {}
                THEN UNCHANGED <<procs, activeProcesses>>
                ELSE LET e == CHOOSE x \in found : TRUE
                     IN  /\ procs' = IF HasExited(e.proc) THEN procs
                                      ELSE DestroyAndWait(procs, e.proc, intr[a])
                         /\ activeProcesses' =
                                IF RemoveIfVerdict(HasExited(e.proc))
                                THEN activeProcesses \ {e} ELSE activeProcesses
    /\ hist' = Removed(hist, activeProcesses, activeProcesses')
    /\ UNCHANGED <<pc, req, intr, fs, nextSid, processCounter, kill, client>>

\* lines 421-424, and for a request thread lines 355-356
sweepEnd(a) ==
    /\ Sweeping(a) /\ iter[a].cur = 0
    /\ iter[a].todo \cap Ids(activeProcesses) = {}
    /\ pc' = [pc EXCEPT ![a] = IF a = "sweeper" THEN "idle" ELSE "r_finally"]
    /\ iter' = [iter EXCEPT ![a] = NoIter]
    /\ UNCHANGED <<req, intr, fs, procs, nextSid, activeProcesses, processCounter, kill, hist,
                   client>>

-----------------------------------------------------------------------------
(* destroy(): the shutdown hook *)

\* lines 85-93: the executor is shut down; a sweep still running after 10 s
\* is interrupted
destroy ==
    /\ pc["hook"] = "idle"
    /\ pc' = [pc EXCEPT !["hook"] = "d_kill"]
    /\ intr' = [intr EXCEPT !["sweeper"] = (pc["sweeper"] # "idle")]
    /\ kill' = Ids(activeProcesses)
    /\ UNCHANGED <<req, fs, procs, nextSid, activeProcesses, processCounter, iter, hist,
                   client>>

\* lines 136-145: one element of the parallel stream
killOne ==
    /\ pc["hook"] = "d_kill"
    /\ \E e \in activeProcesses :
         /\ e.id \in kill
         /\ procs' = DestroyAndWait(procs, e.proc, FALSE)
         /\ kill' = kill \ {e.id}
    /\ UNCHANGED <<pc, req, intr, fs, nextSid, activeProcesses, processCounter, iter, hist,
                   client>>

\* line 147: activeProcesses.clear()
killAllActiveProcesses ==
    /\ pc["hook"] = "d_kill"
    /\ kill \cap Ids(activeProcesses) = {}
    /\ activeProcesses' = {}
    /\ hist' = Removed(hist, activeProcesses, {})
    /\ kill' = {}
    /\ pc' = [pc EXCEPT !["hook"] = "d_done"]
    /\ UNCHANGED <<req, intr, fs, procs, nextSid, processCounter, iter, client>>

-----------------------------------------------------------------------------
(* The browser client: SyntaxAnalysisService.analyzeSyntax (ThemeContext.tsx). *)
(* The event loop runs one piece of code at a time: a call up to its await,  *)
(* the continuation of a settled fetch, a timer callback.                    *)

server == <<pc, req, intr, fs, procs, nextSid, activeProcesses, processCounter, iter, kill, hist>>

\* this.abortController = null
NoController == 0

\* a call: its AbortController, its fetch, its timeout timer, what it returned
NewCall == [aborted |-> FALSE, fetch |-> "pending", timer |-> "armed", result |-> "none"]

\* abortController.abort(), guarded by if (this.abortController)
Abort(calls, c) == IF c = NoController THEN calls ELSE [calls EXCEPT ![c].aborted = TRUE]

\* lines 122-148: the controller on record is aborted, a new one takes its
\* place, the timer is armed and the fetch sent
clientAnalyzeSyntax ==
    /\ Len(client.calls) < MaxCalls
    /\ client' = [abortController |-> Len(client.calls) + 1,
                  calls |-> Append(Abort(client.calls, client.abortController), NewCall)]
    /\ UNCHANGED server

\* lines 142-186: the response arrives; the timer of the call is cleared and
\* the tokens, or [] for a failure the server reports, are returned
fetchResponds(c) ==
    /\ c \in DOMAIN client.calls
    /\ client.calls[c].fetch = "pending" /\ ~client.calls[c].aborted
    /\ \E result \in {"tokens", "empty"} :
          client' = [client EXCEPT !.calls[c].fetch = "fulfilled",
                                   !.calls[c].timer = IF @ = "armed" THEN "cleared" ELSE @,
                                   !.calls[c].result = result]
    /\ UNCHANGED server

\* lines 142-148 and 187-192: the fetch rejects, aborted or failed; the catch
\* block returns [] and clearTimeout at line 150 is not reached
fetchRejects(c) ==
    /\ c \in DOMAIN client.calls
    /\ client.calls[c].fetch = "pending"
    /\ client' = [client EXCEPT !.calls[c].fetch = "rejected", !.calls[c].result = "empty"]
    /\ UNCHANGED server

\* lines 136-138: the callback reads this.abortController when it runs
TimerTarget(c) == client.abortController

\* lines 135-140: the timer callback; timers of one delay fire in the order
\* they were armed
timeoutFires(c) ==
    /\ c \in DOMAIN client.calls
    /\ client.calls[c].timer = "armed"
    /\ \A d \in 1..(c - 1) : client.calls[d].timer # "armed"
    /\ client' = [client EXCEPT
                     !.calls = Abort([client.calls EXCEPT ![c].timer = "fired"], TimerTarget(c))]
    /\ UNCHANGED server

-----------------------------------------------------------------------------

NextCompile ==
    \/ \E t \in Threads :
          \/ \E s \in Sources : compileAndExecute(t, s)
          \/ createTempDir(t)
          \/ cleanupAllTempFiles(t)
          \/ writeSourceFile(t)
          \/ compileSource(t)
          \/ compileWait(t)
          \/ compileJudge(t)
          \/ executeProgram(t)
          \/ executeWait(t)
          \/ \E raw \in OneOutput : executeResult(t, raw)
          \/ compileFinally(t)
          \/ Return(t)
    \/ \E p \in DOMAIN procs : ProcessExits(p) \/ ProcessDies(p) \/ PipeReleased(p)

SpecCompile == Init /\ [][NextCompile]_vars

\* one worker thread serving requests one after another
NextSolo ==
    \/ \E s \in Sources : compileAndExecute("t1", s)
    \/ createTempDir("t1")
    \/ cleanupAllTempFiles("t1")
    \/ writeSourceFile("t1")
    \/ compileSource("t1")
    \/ compileWait("t1")
    \/ compileJudge("t1")
    \/ executeProgram("t1")
    \/ executeWait("t1")
    \/ \E raw \in OneOutput : executeResult("t1", raw)
    \/ compileFinally("t1")
    \/ Return("t1")
    \/ \E p \in DOMAIN procs : ProcessExits(p) \/ ProcessDies(p) \/ PipeReleased(p)

SpecSolo == Init /\ [][NextSolo]_vars

\* the steps of the worker thread between taking a request and answering it
SoloSteps ==
    \/ createTempDir("t1")
    \/ cleanupAllTempFiles("t1")
    \/ writeSourceFile("t1")
    \/ compileSource("t1")
    \/ compileWait("t1")
    \/ compileJudge("t1")
    \/ executeProgram("t1")
    \/ executeWait("t1")
    \/ \E raw \in OneOutput : executeResult("t1", raw)
    \/ compileFinally("t1")

\* the worker thread is scheduled whenever it can take a step, and a killed
\* process dies; nothing obliges a process to exit or to let go of its pipe
SpecSoloFair ==
    /\ SpecSolo
    /\ WF_vars(SoloSteps)
    /\ WF_vars(\E p \in DOMAIN procs : ProcessDies(p))

\* the first request of a fresh service, its program writing any text
NextOutput ==
    \/ \E s \in Sources : nextSid = 0 /\ compileAndExecute("t1", s)
    \/ createTempDir("t1")
    \/ cleanupAllTempFiles("t1")
    \/ writeSourceFile("t1")
    \/ compileSource("t1")
    \/ compileWait("t1")
    \/ compileJudge("t1")
    \/ executeProgram("t1")
    \/ executeWait("t1")
    \/ \E raw \in RawOutputs : executeResult("t1", raw)
    \/ compileFinally("t1")
    \/ Return("t1")
    \/ \E p \in DOMAIN procs : ProcessExits(p) \/ ProcessDies(p) \/ PipeReleased(p)

SpecOutput == Init /\ [][NextOutput]_vars

\* the analysis service: request threads, the scheduler thread, the shutdown hook
AnalyzeInputs == {NullSource, [isNull |-> FALSE, text |-> <<"x">>]}

NextAnalyze ==
    \/ \E t \in Threads :
          \/ \E s \in AnalyzeInputs : analyzeSyntax(t, s)
          \/ createIsolatedDir(t)
          \/ runCompilerToolSafely(t)
          \/ \E astOutput \in OneDump : runWait(t, 0, astOutput)
          \/ runFinally(t)
          \/ analyzeFinally(t)
          \/ Return(t)
    \/ sweepBegin
    \/ \E a \in Threads \cup {"sweeper"} : sweepAlive(a) \/ sweepPoll(a) \/ sweepEnd(a)
    \/ destroy
    \/ killOne
    \/ killAllActiveProcesses
    \/ \E p \in DOMAIN procs : ProcessExits(p) \/ ProcessDies(p)

SpecAnalyze == Init /\ [][NextAnalyze]_vars

\* the first analysis request of a fresh service: any text, any exit code and
\* any dump of the compiler.  The sweep after a timeout meets one entry, that
\* of the process just killed, so it never polls.
NextEnhance ==
    \/ \E s \in TokenSources : nextSid = 0 /\ analyzeSyntax("t1", s)
    \/ createIsolatedDir("t1")
    \/ runCompilerToolSafely("t1")
    \/ \E exitCode \in {0, 1}, astOutput \in Dumps : runWait("t1", exitCode, astOutput)
    \/ sweepAlive("t1") \/ sweepEnd("t1")
    \/ runFinally("t1")
    \/ analyzeFinally("t1")
    \/ Return("t1")
    \/ \E p \in DOMAIN procs : ProcessExits(p) \/ ProcessDies(p)

SpecEnhance == Init /\ [][NextEnhance]_vars

\* the static pass on its own, once, on every text of LexSources
NextTokens ==
    \E sourceCode \in LexSources : req["t1"].mode = "none" /\ staticPass("t1", sourceCode)

SpecTokens == Init /\ [][NextTokens]_vars

\* two callers of the static pass, each tokenizing one text after another
NextLex ==
    \E t \in Threads, sourceCode \in PairSources : staticPass(t, sourceCode)

SpecLex == Init /\ [][NextLex]_vars

\* the browser client on its own: calls, responses, failures and timers in
\* every order
NextClient ==
    \/ clientAnalyzeSyntax
    \/ \E c \in 1..MaxCalls : fetchResponds(c) \/ fetchRejects(c) \/ timeoutFires(c)

SpecClient == Init /\ [][NextClient]_vars

-----------------------------------------------------------------------------
(* Properties *)

Returned(t) == pc[t] = "done"
Running(sid) == \E u \in Threads : req[u].sid = sid /\ pc[u] \notin {"idle", "done"}
Waiting(t) == pc[t] \in {"c_wait", "e_wait", "r_wait"}
OutcomeKinds == {"success", "compilation_error", "runtime_error", "timeout"}

\* C1: no filesystem step of a request deletes or executes a file that belongs
\* to the workspace of another request that is still running.
C1_WorkspaceNeverShared ==
    [][\A t \in Threads :
          pc'[t] # pc[t] =>
            /\ \A f \in fs \ fs' : f.owner = req[t].sid \/ ~Running(f.owner)
            /\ (pc'[t] = "e_wait" =>
                   LET img == procs'[req'[t].child].img
                   IN  img.owner = req[t].sid \/ ~Running(img.owner))]_vars

C3_RegisteredBeforeWait ==
    \A t \in Threads :
       Waiting(t) => (req[t].pid \in DOMAIN hist /\ hist[req[t].pid].reg = 1)

\* C4: a thread that waits for a child process is draining the child's output.
C4_DrainBeforeWait ==
    \A t \in Threads : Waiting(t) => procs[req[t].child].drain

\* C5: a compile request whose program ran out of its execution time returns
\* the outcome kind timeout.
C5_ExecutionTimeoutKind ==
    \A t \in Threads :
       (Returned(t) /\ req[t].why = "ExecuteTimeout") => req[t].result.kind = "timeout"

\* C6: compileAndExecute returns one of the four outcome kinds, whatever the
\* processes and the filesystem do; nothing is thrown to the caller.
C6_AlwaysAnOutcome ==
    \A t \in Threads :
       (Returned(t) /\ req[t].mode = "compile") => req[t].result.kind \in OutcomeKinds

\* C6 witness: a request whose source file could not be written has returned.
C6_Witness ==
    \E t \in Threads :
       /\ Returned(t) /\ req[t].mode = "compile"
       /\ req[t].why = "IOFailure" /\ req[t].touched
       /\ req[t].result.kind = "compilation_error"

\* the inputs the specification rejects: null, whitespace only, over-length
EmptyOrOverLength(s) ==
    \/ s.isNull
    \/ \A i \in DOMAIN s.text : s.text[i] = " "
    \/ Len(s.text) > maxSourceCodeLength

\* C7: an empty or over-length source is answered with compilationError, and
\* the request has created no session, touched no file and spawned no process.
C7_RejectedBeforeAnyIO ==
    \A t \in Threads :
       (Returned(t) /\ req[t].mode = "compile" /\ EmptyOrOverLength(req[t].src)) =>
          /\ req[t].result.kind = "compilation_error"
          /\ ~req[t].touched /\ ~req[t].spawned
          /\ req[t].sid = 0 /\ req[t].child = NoProc

\* C7 witness: an over-length, non-blank source has been answered.
C7_Witness ==
    \E t \in Threads :
       /\ Returned(t) /\ req[t].mode = "compile"
       /\ ~req[t].src.isNull /\ Len(req[t].src.text) > maxSourceCodeLength
       /\ \E i \in DOMAIN req[t].src.text : req[t].src.text[i] # " "
       /\ req[t].result.kind = "compilation_error"

\* C8: when a request that created workspace content has returned, no file
\* that it or its compiler run created is left.
C8_WorkspaceDisposed ==
    \A t \in Threads :
       (Returned(t) /\ req[t].sid # 0) => ~\E f \in fs : f.owner = req[t].sid

\* C9: the step that ends killAllActiveProcesses leaves the registry empty and
\* every process it took out of the registry dead.
C9_KillAllLeavesNothingAlive ==
    [][(pc["hook"] = "d_kill" /\ pc'["hook"] = "d_done") =>
          /\ activeProcesses' = {}
          /\ \A e \in activeProcesses : procs'[e.proc].st = "exited"]_vars

\* C10: a sweep removes an entry whose process has exited when it is visited;
\* an entry whose process is alive goes to the non-blocking poll, and after
\* the poll the entry is still registered only if the poll found the process
\* finished; otherwise the process has been killed and the entry removed.
C10_SweepPolicy ==
    [][\A a \in Actors :
          (Sweeping(a) /\ pc'[a] = pc[a]) =>
            /\ \A e \in activeProcesses :
                  (e.id \in iter[a].todo /\ e.id \notin iter'[a].todo) =>
                     IF HasExited(e.proc) THEN e \notin activeProcesses'
                                          ELSE iter'[a].cur = e.id
            /\ \A e \in activeProcesses :
                  (iter[a].cur = e.id /\ iter'[a].cur = 0) =>
                     IF HasExited(e.proc) THEN e \in activeProcesses'
                     ELSE e \notin activeProcesses' /\ procs'[e.proc].st # "running"]_vars

\* C10 witness: during a sweep, before any shutdown, the entry of a request
\* that is still waiting for its process has been removed.
C10_Witness ==
    /\ pc["hook"] = "idle"
    /\ \E a \in Actors : Sweeping(a)
    /\ \E t \in Threads :
          pc[t] = "r_wait" /\ req[t].pid \notin Ids(activeProcesses)

-----------------------------------------------------------------------------
(* Compile judgement, discovery, failure kinds, truncation *)

\* msg holds the words of part, next to each other and in order
Contains(msg, part) ==
    \E i \in 0..(Len(msg) - Len(part)) : SubSeq(msg, i + 1, i + Len(part)) = part

\* a file in the temp root with one of the five recognized artifact names
RecognizedArtifact(files, sid) ==
    \E f \in files :
       /\ f.loc = 0
       /\ \/ (f.stem = "temp" /\ f.sid = sid /\ f.ext \in {"", "exe"})
          \/ (f.stem = "privet" /\ f.ext \in {"", "exe"})
          \/ (f.stem = "a" /\ f.ext = "out")

\* C12: the compile is judged successful exactly if the exit code is zero and
\* the no-errors marker is in the output or a recognized artifact exists.
C12_CompileJudgement ==
    [][\A t \in Threads :
          (pc[t] = "c_read" /\ pc'[t] # "c_read" /\ req'[t].why # "IOFailure") =>
             ((pc'[t] = "e_locate") <=>
                 (req'[t].exit = 0 /\ (req'[t].marker \/ RecognizedArtifact(fs, req[t].sid))))]_vars

\* C12 witness: a compile without the marker was judged successful.
C12_Witness ==
    \E t \in Threads : pc[t] = "e_locate" /\ req[t].exit = 0 /\ ~req[t].marker

\* a regular file of the temp root that is neither the source file nor a source
Discoverable(files, sid) ==
    {f \in files : f.loc = 0 /\ ~f.dir /\ f.ext # "tri" /\ ~SameName(f, SourceFileOf(sid))}

C14_CompileTimeout ==
    \A t \in Threads :
       (Returned(t) /\ req[t].why = "CompileTimeout") =>
          /\ req[t].result.kind = "compilation_error"
          /\ Contains(req[t].result.msg, <<"timed", "out", "after">>)
          /\ procs[req[t].child].st # "running"
          /\ \A e \in activeProcesses : e.proc # req[t].child

\* the executable the discovery convention names: the base name, the base name
\* with .exe, the two legacy names, a.out, then any discoverable file
Convention(files, sid) ==
    LET named(f) == {g \in files : SameName(f, g)}
        order == <<BaseFileOf(sid), BaseExeFileOf(sid), ArtifactFile("privet", sid),
                   ArtifactFile("privetexe", sid), ArtifactFile("aout", sid)>>
        hits == {i \in 1..Len(order) : named(order[i]) # {}}
    IN  IF hits # {} THEN named(order[CHOOSE i \in hits : \A j \in hits : i <= j])
        ELSE Discoverable(files, sid)

\* C15: the executable that is run is the first one the convention names, and
\* "not found" is answered only if the convention names none.
C15_DiscoveryOrder ==
    [][\A t \in Threads :
          (pc[t] = "e_locate" /\ pc'[t] # "e_locate") =>
             /\ (pc'[t] = "e_wait" =>
                    procs'[req'[t].child].img \in Convention(fs, req[t].sid))
             /\ (req'[t].why = "ArtifactMissing" => Convention(fs, req[t].sid) = {})]_vars

\* C16: a failed start of the compiler is answered with compilationError, a
\* failed start of the compiled program with runtimeError.
C16_SpawnFailureKind ==
    \A t \in Threads :
       (Returned(t) /\ req[t].why = "SpawnFailure") =>
          req[t].result.kind = IF req[t].spawned THEN "runtime_error" ELSE "compilation_error"

\* C16 witness: the compiled program could not be started.
C16_Witness ==
    \E t \in Threads :
       /\ Returned(t) /\ req[t].why = "SpawnFailure" /\ req[t].spawned
       /\ req[t].result.kind = "runtime_error"

\* the first n characters of text and the truncation marker if text is longer
\* than n, else text
CutTo(text, n) ==
    IF Len(text) > n
    THEN [i \in 1..(n + 2) |->
            IF i <= n THEN text[i] ELSE IF i = n + 1 THEN "\n" ELSE "... (output truncated)"]
    ELSE text

\* C17 as stated: the returned output of a program that exited 0 is what the
\* program wrote, cut to maxOutputLength with the marker appended if longer.
C17_TruncatesProgramOutput ==
    \A t \in Threads :
       (Returned(t) /\ req[t].why = "Exited") =>
          req[t].result.msg = CutTo(req[t].raw, maxOutputLength)

\* C17 amended: the returned output of a program that exited 0 is the text
\* read from it (lines joined by "\n", trimmed), cut to maxOutputLength with
\* the marker appended if that text is longer.
C17_TruncatesReadOutput ==
    \A t \in Threads :
       (Returned(t) /\ req[t].why = "Exited") =>
          req[t].result.msg = CutTo(req[t].output, maxOutputLength)

\* C17 witness: a text that differs from what the program wrote was cut.
C17_Witness ==
    \E t \in Threads :
       /\ Returned(t) /\ req[t].why = "Exited"
       /\ Len(req[t].output) > maxOutputLength
       /\ req[t].output # req[t].raw

\* C18: every request that has been taken is answered, whatever the external
\* processes and those holding their output pipe do.
C18_EveryRequestReturns ==
    \A t \in Threads : (pc[t] \notin {"idle", "done"}) ~> Returned(t)

-----------------------------------------------------------------------------
(* The analysis response *)

Analyzed(t) == Returned(t) /\ req[t].mode = "analyze"
StaticTokens(t) == performStaticLexicalAnalysis(sanitizeInput(req[t].src.text))

\* C11 as stated: after an AST dump that failed by a non-zero exit code, a
\* timeout or a spawn error, the returned tokens are exactly those of the
\* static pass.
C11_FailedDumpLeavesStaticTokens ==
    \A t \in Threads :
       (Analyzed(t) /\ (\/ req[t].why \in {"SpawnFailure", "CompileTimeout"}
                        \/ (req[t].why = "Exited" /\ req[t].exit # 0))) =>
          req[t].result.toks = StaticTokens(t)

\* C11 amended: after an AST dump that timed out or could not be started,
\* the returned tokens are exactly those of the static pass, none tagged.
C11_ThrownDumpLeavesStaticTokens ==
    \A t \in Threads :
       (Analyzed(t) /\ req[t].why \in {"SpawnFailure", "CompileTimeout"}) =>
          /\ req[t].result.kind = "tokens"
          /\ req[t].result.toks = StaticTokens(t)
          /\ \A i \in DOMAIN req[t].result.toks : req[t].result.toks[i].semanticInfo = NoTag

\* C11 witness: a text with a keyword in it was answered after a timeout.
C11_Witness ==
    \E t \in Threads :
       /\ Analyzed(t) /\ req[t].why = "CompileTimeout"
       /\ \E i \in DOMAIN req[t].result.toks : req[t].result.toks[i].tokenType = "KEYWORD"

SymbolKinds ==
    {"USER_FUNCTION", "USER_VARIABLE", "FUNCTION_PARAMETER", "IMPORTED_CLASS",
     "IMPORTED_FUNCTION"}

\* C20: the semantic tag of a returned token is absent or one of the five
\* kinds, with nothing appended.
C20_TagIsAFixedKind ==
    \A t \in Threads :
       Analyzed(t) =>
          \A i \in DOMAIN req[t].result.toks :
             LET tag == req[t].result.toks[i].semanticInfo
             IN  tag = NoTag \/ (tag.kind \in SymbolKinds /\ tag.payload = <<>>)

-----------------------------------------------------------------------------
(* The static pass *)

Tokenized(t) == req[t].mode = "tokenize"
TokenAt(t, k) == req[t].toks[k]
TypesOf(t) == {req[t].toks[k].tokenType : k \in 1..Len(req[t].toks)}

C22_SpansNotEmpty ==
    \A t \in Threads :
        Tokenized(t) =>
            \A k \in 1..Len(req[t].toks) :
                /\ TokenAt(t, k).startLine <= TokenAt(t, k).endLine
                /\ TokenAt(t, k).startLine = TokenAt(t, k).endLine
                      => TokenAt(t, k).startColumn < TokenAt(t, k).endColumn

\* a text with a comment, a string, an identifier and operators was tokenized
C22_Witness ==
    /\ Tokenized("t1")
    /\ {"COMMENT", "STRING_LITERAL", "IDENTIFIER", "OPERATOR"} \subseteq TypesOf("t1")

\* the function definitions of scenario A: three different names
ScenarioA(text, name, p1, p2) ==
    /\ text = FunctionDefinition(name, p1, p2)
    /\ name # p1 /\ name # p2 /\ p1 # p2

Occurrences(t, value) == {k \in 1..Len(req[t].toks) : req[t].toks[k].value = value}

\* C23: for fn name(p1:T, p2:T):T{r p1+p2;} pass 1 records name as a
\* function and p1, p2 as parameters, and pass 2 gives name the function
\* kind, both occurrences of p1 and of p2 the parameter kind, T the
\* built-in-type kind and + the operator kind
C23_ScenarioA ==
    \A t \in Threads, name \in DefNames, p1 \in DefNames, p2 \in DefNames :
        Tokenized(t) /\ ScenarioA(req[t].src.text, name, p1, p2) =>
            /\ AllFunctionNames(LinesOf(req[t].src.text)) = {name}
            /\ AllParameterNames(LinesOf(req[t].src.text)) = {p1, p2}
            /\ Cardinality(Occurrences(t, name)) = 1
            /\ Cardinality(Occurrences(t, p1)) = 2
            /\ Cardinality(Occurrences(t, p2)) = 2
            /\ Cardinality(Occurrences(t, <<"T">>)) = 3
            /\ Cardinality(Occurrences(t, <<"+">>)) = 1
            /\ \A k \in Occurrences(t, name) : TokenAt(t, k).tokenType = "function.user"
            /\ \A k \in Occurrences(t, p1) \cup Occurrences(t, p2) :
                  TokenAt(t, k).tokenType = "variable.parameter"
            /\ \A k \in Occurrences(t, <<"T">>) : TokenAt(t, k).tokenType = "BUILT_IN_TYPE"
            /\ \A k \in Occurrences(t, <<"+">>) : TokenAt(t, k).tokenType = "OPERATOR"

\* the definition of s with the parameters a and b was tokenized
C23_Witness ==
    /\ Tokenized("t1")
    /\ ScenarioA(req["t1"].src.text, <<"s">>, <<"a">>, <<"b">>)
    /\ {"function.user", "variable.parameter", "BUILT_IN_TYPE", "OPERATOR"} \subseteq TypesOf("t1")

\* the line a token stands on, without its comment
LineOfToken(t, k) == StripComment(LinesOf(req[t].src.text)[TokenAt(t, k).startLine + 1])

IdentifierKinds ==
    {"function.user", "variable.parameter", "variable.user", "KEYWORD", "BUILT_IN_TYPE",
     "BUILT_IN_FUNCTION", "IDENTIFIER"}

\* C24: the candidates of the line itself come first: an identifier that is
\* a parameter candidate and no function candidate on its own line has the
\* parameter kind, whatever pass 1 found on other lines
C24_LocalCandidatesFirst ==
    \A t \in Threads :
        Tokenized(t) =>
            \A k \in 1..Len(req[t].toks) :
                /\ TokenAt(t, k).tokenType \in IdentifierKinds
                /\ TokenAt(t, k).value \in ParameterNames(LineOfToken(t, k), 1)
                /\ TokenAt(t, k).value \notin FunctionNames(LineOfToken(t, k), 1)
                => TokenAt(t, k).tokenType = "variable.parameter"

\* C29: no two tokens of one line share a column
C29_NoOverlap ==
    \A t \in Threads :
        Tokenized(t) =>
            \A k \in 1..Len(req[t].toks), m \in 1..Len(req[t].toks) :
                k # m /\ TokenAt(t, k).startLine = TokenAt(t, m).startLine
                => \/ TokenAt(t, k).endColumn <= TokenAt(t, m).startColumn
                   \/ TokenAt(t, m).endColumn <= TokenAt(t, k).startColumn

-----------------------------------------------------------------------------
(* Workspace disposal and process completion *)

OwnProcesses(t) == {p \in DOMAIN procs : procs[p].owner = req[t].sid}

\* C25: the finally block of compileAndExecute deletes the workspace of a
\* request only when every process the request spawned has terminated, a
\* process killed on timeout included
C25_DisposalAfterCompletion ==
    [][\A t \in Threads :
          pc[t] = "c_finally" /\ pc'[t] = "done" => \A p \in OwnProcesses(t) : HasExited(p)]_vars

\* C26: the program a request runs is a file its own compilation created
C26_RunsOwnArtifact ==
    \A p \in DOMAIN procs :
        procs[p].kind = "exec" => procs[p].img.owner = procs[p].owner

-----------------------------------------------------------------------------
(* The sweep on the timeout path *)

\* C27: the sweep a request thread runs after its own process timed out
\* (lines 350-353) kills no process of another request that is still in its
\* bounded wait
C27_TimeoutKillsOwnProcessOnly ==
    [][\A t \in Threads, u \in Threads :
          /\ t # u
          /\ pc[t] = "r_sweep" /\ iter[t].cur # 0 /\ iter'[t].cur = 0
          /\ pc[u] = "r_wait" /\ procs[req[u].child].st = "running"
          => procs'[req[u].child].st = "running"]_vars

-----------------------------------------------------------------------------
(* The interrupt flag of a worker thread *)

\* C28: a request that ends with a spawn or I/O failure returns with the
\* interrupt flag of its thread clear, and no request whose thread nobody
\* interrupted finds its bounded wait interrupted
C28_FailureLeavesNoInterrupt ==
    \A t \in Threads :
        /\ Returned(t) /\ req[t].why \in {"SpawnFailure", "IOFailure"} => ~intr[t]
        /\ req[t].why # "Interrupted"

-----------------------------------------------------------------------------
(* The client's timeout timer *)

InFlight(c) == client.calls[c].fetch = "pending" /\ ~client.calls[c].aborted

\* C30: the timer a call armed aborts no request but that call's own: when
\* it fires, every other request in flight stays unaborted
C30_TimerAbortsOwnRequestOnly ==
    [][\A c \in DOMAIN client.calls, d \in DOMAIN client.calls :
          /\ c # d
          /\ client.calls[c].timer = "armed" /\ client'.calls[c].timer = "fired"
          /\ InFlight(d)
          => ~client'.calls[d].aborted]_vars

=============================================================================
